---- MODULE Spec2Model ----
(***************************************************************************)
(* bugakari: table extraction (extract_tables_fromW.py) and table          *)
(* classification / merging (merge_tables.py).                             *)
(*                                                                         *)
(* Text is modelled as a sequence of one-character tokens, so that         *)
(* concatenation, strip() and substring search are computed, not assumed.  *)
(* The module is ASCII only; the Japanese literals of the source are       *)
(* written as tokens:                                                      *)
(*    "HYO" = U+8868 (hyo, "table")     "BETSU" = U+5225 (betsu, "annex")  *)
(*    "CHU" = U+6CE8 (chu, "note")      "TAN","I" = U+5358 U+4F4D (unit)   *)
(*    "[" , "]" = the lenticular brackets U+3010, U+3011                   *)
(* Column names are atomic names: hyo, sagyomei, meisho, tekiyo, tani,     *)
(* shoyoryo, biko (the seven names of expected_base_columns).              *)
(***************************************************************************)
EXTENDS Integers, Sequences, FiniteSets, TLC

VARIABLES
    \* ---- extract_tables_from_docx (one document) ----
    pc,                                   \* "elements" | "rows" | "done"
    elements,                             \* the blocks read so far
    current_docx_table_preceding_text,
    current_sub_table_rows,
    building_sub_table,
    current_sub_table_work_name,
    found_hyo_marker_row_data,            \* <<>> is None, <<row>> a row
    row_after_hyo_row_data,               \* <<>> is None, <<row>> a row
    is_split_sub_table,
    extracted_dfs,
    \* ---- history of the run (written, never read, by the operations) ----
    h_cur,                                \* provenance of the sub-table being built
    h_emitted,                            \* provenance of each emitted Grid
    h_events,                             \* header-establishing events so far
    h_closed,                             \* provenance of every closed sub-table
    h_marks,                              \* << block, row >> of every marker row
    \* ---- process_nested_csvs ----
    cpc,                                  \* "sweep" | "done"
    swept,                                \* the paths handled so far, in order
    group1_main_dfs,                      \* << df, file_path >> pairs
    group1_annex_dfs,
    group2_files,
    group3_files,
    group4_files,
    main_csv,                             \* << >>: not written, << df >>: written
    annex_csv,
    h_outcome,                            \* the outcome of each swept path
    \* ---- extract_tables_fromW.py, __main__ ----
    bpc,                                  \* "loop" | "finished" | "crashed"
    docx_files,                           \* the sorted list of documents
    doc_i,                                \* documents handled so far
    saved,                                \* the CSV file names written
    total_extracted_tables,
    \* ---- merge_tables.py, __main__, run twice on one input root ----
    run,                                  \* 0: idle, 1: first run, 2: second run
    all_csv_paths,                        \* the paths os.walk gives this run
    h_first_main,                         \* the datasets the first run wrote
    h_first_annex

segVars == << pc, elements, current_docx_table_preceding_text,
              current_sub_table_rows, building_sub_table,
              current_sub_table_work_name, found_hyo_marker_row_data,
              row_after_hyo_row_data, is_split_sub_table, extracted_dfs,
              h_cur, h_emitted, h_events, h_closed, h_marks >>

clsVars == << cpc, swept, group1_main_dfs, group1_annex_dfs, group2_files,
              group3_files, group4_files, main_csv, annex_csv, h_outcome >>

batVars == << bpc, docx_files, doc_i, saved, total_extracted_tables >>

runVars == << run, all_csv_paths, h_first_main, h_first_annex >>

vars == << segVars, clsVars, batVars, runVars >>

\* ------------------------------------------------------------------ bounds
MaxElements == 2
MaxRows == 4
MaxFiles == 3
MaxDocs == 3
MaxRootFiles == 2

\* ------------------------------------------------------------------- text
RECURSIVE Join(_)
\* "".join(cells)
Join(cells) ==
    IF cells = << >> THEN << >> ELSE Head(cells) \o Join(Tail(cells))

\* pat in text
Contains(text, pat) ==
    \E i \in 1..(Len(text) - Len(pat) + 1) :
        SubSeq(text, i, i + Len(pat) - 1) = pat

RECURSIVE LStrip(_)
LStrip(text) ==
    IF text # << >> /\ Head(text) = " " THEN LStrip(Tail(text)) ELSE text

RECURSIVE RStrip(_)
RStrip(text) ==
    IF text # << >> /\ text[Len(text)] = " "
    THEN RStrip(SubSeq(text, 1, Len(text) - 1)) ELSE text

\* str.strip()
Strip(text) == RStrip(LStrip(text))

NOTE_MARK == << "(", "CHU", ")" >>
HYO_MARK == << "HYO" >>
TANI_MARK == << "TAN", "I" >>
SAGYOMEI == << "sagyomei" >>
EMPTY == << >>

\* [''] * n
RECURSIVE Blanks(_)
Blanks(n) == IF n <= 0 THEN << >> ELSE << EMPTY >> \o Blanks(n - 1)

RECURSIVE MaxRowLen(_)
\* max(len(row) for row in rows), 0 when there is none
MaxRowLen(rows) ==
    IF rows = << >> THEN 0
    ELSE LET m == MaxRowLen(Tail(rows))
         IN IF Len(Head(rows)) > m THEN Len(Head(rows)) ELSE m

\* ------------------------------------------------- create_dataframe_from_rows
\* Mutant: the header is not padded to the width of the data rows.
create_dataframe_from_rows_headerNotPadded(rows, preceding_text) ==
    IF rows = << >> THEN << >>
    ELSE
      LET rows_data == Tail(rows)
          processed == [k \in 1..Len(rows_data) |->
                            << preceding_text >> \o rows_data[k]]
          mh == 1 + Len(rows[1])
          mr == MaxRowLen(processed)
          max_cols == IF mh > mr THEN mh ELSE mr
      IN << [columns |-> << SAGYOMEI >> \o rows[1],
             data |-> [k \in 1..Len(processed) |->
                         processed[k] \o Blanks(max_cols - Len(processed[k]))]] >>

\* A DataFrame is [columns |-> names, data |-> rows]; the result is << >> for
\* None and << df >> for a DataFrame.
create_dataframe_from_rows(rows, preceding_text) ==
    IF rows = << >> THEN << >>
    ELSE
      LET headers == rows[1]
          rows_data == Tail(rows)
          final_headers0 == << SAGYOMEI >> \o headers
          processed == [k \in 1..Len(rows_data) |->
                            << preceding_text >> \o rows_data[k]]
          mh == Len(final_headers0)
          mr == MaxRowLen(processed)
          max_cols == IF mh > mr THEN mh ELSE mr
          final_headers == final_headers0 \o Blanks(max_cols - mh)
          adjusted == [k \in 1..Len(processed) |->
                            processed[k] \o Blanks(max_cols - Len(processed[k]))]
      IN << [columns |-> final_headers, data |-> adjusted] >>

\* ------------------------------------------------------------ the inputs
\* Paragraph texts and raw table rows (cell texts before strip()).
ParaPool == { << " ", "P", "Q", " " >> }

R_wide == << << "x" >>, << " ", "y" >>, << "z" >> >>
R_note == << << "(", "CHU" >>, << ")", "n" >> >>
R_hyo == << << " ", "HYO", "1" >>, << >> >>
R_tani == << << "m", "TAN" >>, << "I" >> >>
R_hyotani == << << "BETSU", "HYO" >>, << "TAN", "I" >> >>
R_notehyo == << << "HYO" >>, << "(", "CHU", ")" >> >>
RowPool == { R_wide, R_note, R_hyo, R_tani, R_hyotani, R_notehyo }

\* row_data = [cell.text.strip() for cell in row.cells]
RowData(raw) == [k \in 1..Len(raw) |-> Strip(raw[k])]

RECURSIVE TotalRows(_)
TotalRows(els) ==
    IF els = << >> THEN 0 ELSE Len(Head(els).rows) + TotalRows(Tail(els))

\* ------------------------------------------------- the conditions of a row
\* Mutant: the marker test wins over the note test.
IsNoteRow_afterHyo(combined_row_text) ==
    Contains(combined_row_text, NOTE_MARK)
        /\ ~Contains(combined_row_text, HYO_MARK)

\* Condition 1: "(note)" in combined_row_text
IsNoteRow(combined_row_text) == Contains(combined_row_text, NOTE_MARK)

\* Condition 3: "hyo" in combined_row_text
IsHyoRow(combined_row_text) == Contains(combined_row_text, HYO_MARK)

\* Mutant: the unit token is looked for in Row A.
NewTable_unitInRowA(rowA, rowB) ==
    IF Contains(Join(rowA), TANI_MARK)
    THEN << rowB, Join(rowA) >>
    ELSE << rowA, EMPTY >>

\* Rules 1 and 2 of the lookahead: << header, work name >> of the new table
NewTable(rowA, rowB) ==
    IF Contains(Join(rowB), TANI_MARK)
    THEN << rowB, Join(rowA) >>
    ELSE << rowA, EMPTY >>

\* Condition 4: the row starts a sub-table by default
IsDefaultStart(building, found_hyo, row_after) ==
    ~building /\ found_hyo = << >> /\ row_after = << >>

\* "if building_sub_table and current_sub_table_rows: df = ...; if df is not
\* None: extracted_dfs.append(df)"
Finalized(dfs) ==
    IF building_sub_table /\ current_sub_table_rows # << >>
    THEN LET df == create_dataframe_from_rows(current_sub_table_rows,
                                              current_sub_table_work_name)
         IN IF df # << >> THEN Append(dfs, df[1]) ELSE dfs
    ELSE dfs

\* The history of a finalization: the sub-table is closed, and emitted when a
\* DataFrame was appended.
Closes == building_sub_table /\ current_sub_table_rows # << >>
HistClose(by) ==
    /\ h_closed' = IF Closes THEN Append(h_closed, [h_cur EXCEPT !.by = by])
                   ELSE h_closed
    /\ h_emitted' = IF Len(Finalized(extracted_dfs)) > Len(extracted_dfs)
                    THEN Append(h_emitted, [h_cur EXCEPT !.by = by])
                    ELSE h_emitted

\* kind: how the header was set; ev: its rank among the header events; blk, at:
\* the block and the row at which it was set (the header row of a default
\* start, "Row B" of a lookahead); data: the rows appended; by: what closed it.
NoSub == [kind |-> "none", ev |-> 0, blk |-> 0, at |-> 0, data |-> << >>,
          by |-> "open"]

\* ------------------------------------------------------------------ Init
\* The other programs, not started.
ClsIdle ==
    /\ cpc = "idle"
    /\ swept = << >>
    /\ group1_main_dfs = << >>
    /\ group1_annex_dfs = << >>
    /\ group2_files = << >>
    /\ group3_files = << >>
    /\ group4_files = << >>
    /\ main_csv = << >>
    /\ annex_csv = << >>
    /\ h_outcome = << >>

RunIdle ==
    /\ run = 0
    /\ all_csv_paths = << >>
    /\ h_first_main = << >>
    /\ h_first_annex = << >>

BatIdle ==
    /\ bpc = "idle"
    /\ docx_files = << >>
    /\ doc_i = 0
    /\ saved = { }
    /\ total_extracted_tables = 0

SegIdle ==
    /\ pc = "idle"
    /\ elements = << >>
    /\ current_docx_table_preceding_text = << >>
    /\ current_sub_table_rows = << >>
    /\ building_sub_table = FALSE
    /\ current_sub_table_work_name = << >>
    /\ found_hyo_marker_row_data = << >>
    /\ row_after_hyo_row_data = << >>
    /\ is_split_sub_table = FALSE
    /\ extracted_dfs = << >>
    /\ h_cur = [kind |-> "none"]
    /\ h_emitted = << >>
    /\ h_events = << >>
    /\ h_closed = << >>
    /\ h_marks = { }

SegInit ==
    /\ pc = "elements"
    /\ elements = << >>
    /\ current_docx_table_preceding_text = EMPTY
    /\ current_sub_table_rows = << >>
    /\ building_sub_table = FALSE
    /\ current_sub_table_work_name = EMPTY
    /\ found_hyo_marker_row_data = << >>
    /\ row_after_hyo_row_data = << >>
    /\ is_split_sub_table = FALSE
    /\ extracted_dfs = << >>
    /\ h_cur = NoSub
    /\ h_emitted = << >>
    /\ h_events = << >>
    /\ h_closed = << >>
    /\ h_marks = { }

\* ------------------------------------------- the loop over the elements
\* A paragraph element: the loop body does nothing for it.
Paragraph ==
    /\ pc = "elements"
    /\ Len(elements) < MaxElements
    /\ \E text \in ParaPool :
         elements' = Append(elements,
                        [type |-> "paragraph", text |-> text, rows |-> << >>])
    /\ UNCHANGED << clsVars, batVars, runVars, pc, current_docx_table_preceding_text,
                    current_sub_table_rows, building_sub_table,
                    current_sub_table_work_name, found_hyo_marker_row_data,
                    row_after_hyo_row_data, is_split_sub_table, extracted_dfs,
                    h_cur, h_emitted, h_events, h_closed, h_marks >>

\* A table element: lines 33-51.
BeginTable ==
    /\ pc = "elements"
    /\ Len(elements) < MaxElements
    /\ elements' = Append(elements,
                        [type |-> "table", text |-> EMPTY, rows |-> << >>])
    /\ current_docx_table_preceding_text' =
         IF Len(elements) > 0 /\ elements[Len(elements)].type = "paragraph"
         THEN Strip(elements[Len(elements)].text)
         ELSE EMPTY
    /\ current_sub_table_rows' = << >>
    /\ building_sub_table' = FALSE
    /\ current_sub_table_work_name' = EMPTY
    /\ found_hyo_marker_row_data' = << >>
    /\ row_after_hyo_row_data' = << >>
    /\ is_split_sub_table' = FALSE
    /\ h_cur' = NoSub
    /\ pc' = "rows"
    /\ UNCHANGED << clsVars, batVars, runVars, extracted_dfs, h_emitted, h_events, h_closed, h_marks >>

\* The table read so far grows by the row the loop is handed.
ReadRow(raw) ==
    elements' = [elements EXCEPT ![Len(elements)].rows = Append(@, raw)]

CurBlk == Len(elements)
CurIdx == Len(elements[Len(elements)].rows) + 1
CanRead == pc = "rows" /\ TotalRows(elements) < MaxRows

\* --------------------------------------------------- the loop over the rows
\* Condition 1 (lines 58-72): a row with the note marker ends the segment.
NoteRow ==
    /\ CanRead
    /\ \E raw \in RowPool :
         /\ IsNoteRow(Join(RowData(raw)))
         /\ ReadRow(raw)
    /\ extracted_dfs' = Finalized(extracted_dfs)
    /\ HistClose("note")
    /\ current_sub_table_rows' = << >>
    /\ building_sub_table' = FALSE
    /\ current_sub_table_work_name' = EMPTY
    /\ found_hyo_marker_row_data' = << >>
    /\ row_after_hyo_row_data' = << >>
    /\ is_split_sub_table' = TRUE
    /\ h_cur' = NoSub
    /\ UNCHANGED << clsVars, batVars, runVars, pc, current_docx_table_preceding_text, h_events, h_marks >>

\* Lines 76-80: the row right after the marker is kept as "Row A".
RowA ==
    /\ CanRead
    /\ found_hyo_marker_row_data # << >>
    /\ row_after_hyo_row_data = << >>
    /\ \E raw \in RowPool :
         /\ ~IsNoteRow(Join(RowData(raw)))
         /\ ReadRow(raw)
         /\ row_after_hyo_row_data' = << RowData(raw) >>
    /\ UNCHANGED << clsVars, batVars, runVars, pc, current_docx_table_preceding_text,
                    current_sub_table_rows, building_sub_table,
                    current_sub_table_work_name, found_hyo_marker_row_data,
                    is_split_sub_table, extracted_dfs,
                    h_cur, h_emitted, h_events, h_closed, h_marks >>

\* Lines 81-114: "Row B" decides the header and the work name of the new table.
RowB ==
    /\ CanRead
    /\ found_hyo_marker_row_data # << >>
    /\ row_after_hyo_row_data # << >>
    /\ \E raw \in RowPool :
         LET new == NewTable(row_after_hyo_row_data[1], RowData(raw))
             sub == [kind |-> "lookahead", ev |-> Len(h_events) + 1,
                     blk |-> CurBlk, at |-> CurIdx, data |-> << >>,
                     by |-> "open"]
         IN /\ ~IsNoteRow(Join(RowData(raw)))
            /\ ReadRow(raw)
            /\ current_sub_table_rows' = << new[1] >>
            /\ current_sub_table_work_name' = new[2]
            /\ h_cur' = sub
            /\ h_events' = Append(h_events, sub)
    /\ extracted_dfs' = Finalized(extracted_dfs)
    /\ HistClose("lookahead")
    /\ building_sub_table' = TRUE
    /\ is_split_sub_table' = TRUE
    /\ found_hyo_marker_row_data' = << >>
    /\ row_after_hyo_row_data' = << >>
    /\ UNCHANGED << clsVars, batVars, runVars, pc, current_docx_table_preceding_text, h_marks >>

\* Condition 3 (lines 117-131): the marker row itself.
HyoRow ==
    /\ CanRead
    /\ found_hyo_marker_row_data = << >>
    /\ \E raw \in RowPool :
         /\ ~IsNoteRow(Join(RowData(raw)))
         /\ IsHyoRow(Join(RowData(raw)))
         /\ ReadRow(raw)
         /\ found_hyo_marker_row_data' = << RowData(raw) >>
    /\ h_marks' = h_marks \cup { << CurBlk, CurIdx >> }
    /\ extracted_dfs' = Finalized(extracted_dfs)
    /\ HistClose("hyo")
    /\ current_sub_table_rows' = << >>
    /\ building_sub_table' = FALSE
    /\ current_sub_table_work_name' = EMPTY
    /\ row_after_hyo_row_data' = << >>
    /\ is_split_sub_table' = TRUE
    /\ h_cur' = NoSub
    /\ UNCHANGED << clsVars, batVars, runVars, pc, current_docx_table_preceding_text, h_events >>

\* Condition 4 (lines 136-143): the row is the header of a new segment, whose
\* work name is the text of the paragraph before the table.
DefaultHeaderRow ==
    /\ CanRead
    /\ found_hyo_marker_row_data = << >>
    /\ IsDefaultStart(building_sub_table, found_hyo_marker_row_data,
                      row_after_hyo_row_data)
    /\ \E raw \in RowPool :
         LET sub == [kind |-> "default", ev |-> Len(h_events) + 1,
                     blk |-> CurBlk, at |-> CurIdx, data |-> << >>,
                     by |-> "open"]
         IN /\ ~IsNoteRow(Join(RowData(raw)))
            /\ ~IsHyoRow(Join(RowData(raw)))
            /\ ReadRow(raw)
            /\ current_sub_table_rows' = << RowData(raw) >>
            /\ h_cur' = sub
            /\ h_events' = Append(h_events, sub)
    /\ current_sub_table_work_name' = current_docx_table_preceding_text
    /\ building_sub_table' = TRUE
    /\ is_split_sub_table' = FALSE
    /\ UNCHANGED << clsVars, batVars, runVars, pc, current_docx_table_preceding_text,
                    found_hyo_marker_row_data, row_after_hyo_row_data,
                    extracted_dfs, h_emitted, h_closed, h_marks >>

\* Lines 146-147: any other row is appended to the segment being built.
AppendRow ==
    /\ CanRead
    /\ found_hyo_marker_row_data = << >>
    /\ ~IsDefaultStart(building_sub_table, found_hyo_marker_row_data,
                       row_after_hyo_row_data)
    /\ \E raw \in RowPool :
         /\ ~IsNoteRow(Join(RowData(raw)))
         /\ ~IsHyoRow(Join(RowData(raw)))
         /\ ReadRow(raw)
         /\ IF building_sub_table
            THEN /\ current_sub_table_rows' =
                        Append(current_sub_table_rows, RowData(raw))
                 /\ h_cur' = [h_cur EXCEPT !.data = Append(@, CurIdx)]
            ELSE UNCHANGED << current_sub_table_rows, h_cur >>
    /\ UNCHANGED << clsVars, batVars, runVars, pc, current_docx_table_preceding_text, building_sub_table,
                    current_sub_table_work_name, found_hyo_marker_row_data,
                    row_after_hyo_row_data, is_split_sub_table, extracted_dfs,
                    h_emitted, h_events, h_closed, h_marks >>

\* Lines 150-154: the end of the table's rows.
EndTable ==
    /\ pc = "rows"
    /\ extracted_dfs' = Finalized(extracted_dfs)
    /\ HistClose("end")
    /\ h_cur' = NoSub
    /\ pc' = "elements"
    /\ UNCHANGED << clsVars, batVars, runVars, elements, current_docx_table_preceding_text,
                    current_sub_table_rows, building_sub_table,
                    current_sub_table_work_name, found_hyo_marker_row_data,
                    row_after_hyo_row_data, is_split_sub_table, h_events,
                    h_marks >>

\* Line 156: return extracted_dfs
Return ==
    /\ pc = "elements"
    /\ pc' = "done"
    /\ UNCHANGED << clsVars, batVars, runVars, elements, current_docx_table_preceding_text,
                    current_sub_table_rows, building_sub_table,
                    current_sub_table_work_name, found_hyo_marker_row_data,
                    row_after_hyo_row_data, is_split_sub_table, extracted_dfs,
                    h_cur, h_emitted, h_events, h_closed, h_marks >>

SegNext ==
    \/ Paragraph
    \/ BeginTable
    \/ NoteRow
    \/ RowA
    \/ RowB
    \/ HyoRow
    \/ DefaultHeaderRow
    \/ AppendRow
    \/ EndTable
    \/ Return

SegSpecInit == SegInit /\ ClsIdle /\ BatIdle /\ RunIdle

SegSpec == SegSpecInit /\ [][SegNext]_vars

\* =================================================== claims: the Segmenter
TableRows(blk) == elements[blk].rows
HasNote(raw) == Contains(Join(RowData(raw)), NOTE_MARK)
HasHyo(raw) == Contains(Join(RowData(raw)), HYO_MARK)
HasTani(raw) == Contains(Join(RowData(raw)), TANI_MARK)
ZeroDataClosed == { k \in 1..Len(h_closed) : h_closed[k].data = << >> }

\* C1 (as claimed): a sub-table closed with a header and no data row yields no
\* Grid, so when the document is done the number of Grids is the number of
\* header-establishing events minus the number of sub-tables closed with zero
\* data rows.
C1_EmittedEqualsEventsMinusEmpty ==
    pc = "done" =>
        /\ \A k \in 1..Len(extracted_dfs) : extracted_dfs[k].data # << >>
        /\ Len(extracted_dfs) = Len(h_events) - Cardinality(ZeroDataClosed)

\* C2: a row whose concatenated text contains the note marker leaves no
\* sub-table in progress and no lookahead pending, and its text is in no header,
\* data row or work name of an emitted Grid.
C2_NoteRowClosesAndIsDropped ==
    /\ \A k \in 1..Len(extracted_dfs) :
         /\ ~Contains(Join(extracted_dfs[k].columns), NOTE_MARK)
         /\ \A r \in 1..Len(extracted_dfs[k].data) :
              ~Contains(Join(extracted_dfs[k].data[r]), NOTE_MARK)
    /\ \A k \in 1..Len(h_emitted) :
         LET h == h_emitted[k]
         IN /\ ~HasNote(TableRows(h.blk)[h.at])
            /\ h.kind = "lookahead" => ~HasNote(TableRows(h.blk)[h.at - 1])
            /\ \A r \in 1..Len(h.data) : ~HasNote(TableRows(h.blk)[h.data[r]])
    /\ (pc = "rows" /\ TableRows(CurBlk) # << >>
          /\ HasNote(TableRows(CurBlk)[Len(TableRows(CurBlk))]))
       => /\ ~building_sub_table
          /\ current_sub_table_rows = << >>
          /\ found_hyo_marker_row_data = << >>
          /\ row_after_hyo_row_data = << >>
          /\ h_cur = NoSub
          /\ \A k \in 1..Len(h_events) :
               \E j \in 1..Len(h_closed) : h_closed[j].ev = k

\* C2 witness: a note row closed a sub-table that had a data row, and its Grid
\* was emitted.
C2_Witness ==
    \E k \in 1..Len(h_emitted) :
        h_emitted[k].by = "note" /\ h_emitted[k].data # << >>

\* A note row arrived as Row B and cancelled the lookahead.
C2_LookaheadCancelled ==
    \E m \in h_marks :
        /\ Len(TableRows(m[1])) >= m[2] + 2
        /\ ~HasNote(TableRows(m[1])[m[2] + 1])
        /\ HasNote(TableRows(m[1])[m[2] + 2])

\* The first row after row b that closes a sub-table being built: a note row or
\* a marker row; one past the last row when there is none.
ClosingRow(rows, b) ==
    LET S == { e \in (b + 1)..Len(rows) : HasNote(rows[e]) \/ HasHyo(rows[e]) }
    IN IF S = { } THEN Len(rows) + 1
       ELSE CHOOSE e \in S : \A f \in S : e <= f

\* C3: a marker row followed by rows A and B without the note marker starts a
\* sub-table at B; its header is B and its work name the concatenation of A's
\* cells when B contains the unit token, else its header is A and its work name
\* empty; its data rows are exactly the rows after B up to the next marker row,
\* note row or end of the table (so neither the marker row nor B is one).
C3_LookaheadHeaderAndRows ==
    /\ \A m \in h_marks :
         LET rows == TableRows(m[1])
         IN (Len(rows) >= m[2] + 2 /\ ~HasNote(rows[m[2] + 1])
               /\ ~HasNote(rows[m[2] + 2]))
            => \E k \in 1..Len(h_events) :
                 /\ h_events[k].kind = "lookahead"
                 /\ h_events[k].blk = m[1]
                 /\ h_events[k].at = m[2] + 2
    /\ \A k \in 1..Len(h_emitted) :
         LET h == h_emitted[k]
             g == extracted_dfs[k]
             rows == TableRows(h.blk)
             A == RowData(rows[h.at - 1])
             B == RowData(rows[h.at])
             header == IF HasTani(rows[h.at]) THEN B ELSE A
             work == IF HasTani(rows[h.at]) THEN Join(A) ELSE EMPTY
             e == ClosingRow(rows, h.at)
         IN h.kind = "lookahead" =>
              /\ << h.blk, h.at - 2 >> \in h_marks
              /\ SubSeq(g.columns, 2, 1 + Len(header)) = header
              /\ Len(h.data) = e - 1 - h.at
              /\ Len(g.data) = Len(h.data)
              /\ \A r \in 1..Len(h.data) :
                   /\ h.data[r] = h.at + r
                   /\ g.data[r][1] = work
                   /\ SubSeq(g.data[r], 2, 1 + Len(RowData(rows[h.at + r])))
                        = RowData(rows[h.at + r])

\* C3 witness: Row B held the unit token and the Grid has a data row under the
\* work name taken from Row A.
C3_Witness ==
    \E k \in 1..Len(h_emitted) :
        /\ h_emitted[k].kind = "lookahead"
        /\ h_emitted[k].data # << >>
        /\ HasTani(TableRows(h_emitted[k].blk)[h_emitted[k].at])
        /\ extracted_dfs[k].data[1][1] # EMPTY

\* Row B held no unit token: Row A is the header of a Grid with a data row.
C3_RuleTwoReached ==
    \E k \in 1..Len(h_emitted) :
        /\ h_emitted[k].kind = "lookahead"
        /\ h_emitted[k].data # << >>
        /\ ~HasTani(TableRows(h_emitted[k].blk)[h_emitted[k].at])

\* C4 (as claimed): the text of the paragraph before the table is the work name
\* of the first sub-table of the table only; a sub-table started later in the
\* same table has the empty work name or the concatenation of its Row A.
C4_ParagraphOnlyForFirstSubTable ==
    (building_sub_table /\ \E k \in 1..Len(h_events) :
                              h_events[k].blk = h_cur.blk /\ k < h_cur.ev)
    => \/ current_sub_table_work_name = EMPTY
       \/ /\ h_cur.kind = "lookahead"
          /\ current_sub_table_work_name =
               Join(RowData(TableRows(h_cur.blk)[h_cur.at - 1]))

Max2(x, y) == IF x >= y THEN x ELSE y
Last(seq) == seq[Len(seq)]

\* C5: a finalization appends a Grid whose columns are the work-name column
\* followed by the header cells, whose rows are the work name followed by the
\* cells of each data row in order, all of one width, the maximum of 1 + the
\* header length and 1 + the longest data row, padded on the right with empty
\* strings.
C5_FinalizationShape ==
    [][ Len(extracted_dfs') > Len(extracted_dfs) =>
          LET g == Last(extracted_dfs')
              hdr == current_sub_table_rows[1]
              dat == Tail(current_sub_table_rows)
              W == Max2(1 + Len(hdr), 1 + MaxRowLen(dat))
          IN /\ Len(extracted_dfs') = Len(extracted_dfs) + 1
             /\ Len(g.columns) = W
             /\ g.columns[1] = SAGYOMEI
             /\ \A i \in 2..W :
                  g.columns[i] = IF i <= 1 + Len(hdr) THEN hdr[i - 1] ELSE EMPTY
             /\ Len(g.data) = Len(dat)
             /\ \A r \in 1..Len(dat) :
                  /\ Len(g.data[r]) = W
                  /\ g.data[r][1] = current_sub_table_work_name
                  /\ \A i \in 2..W :
                       g.data[r][i] = IF i <= 1 + Len(dat[r])
                                      THEN dat[r][i - 1] ELSE EMPTY
      ]_vars

\* C5 witness: a Grid whose header was padded to the width of a longer data
\* row, and a Grid whose data row was padded to the width of the header.
C5_Witness ==
    /\ \E k \in 1..Len(extracted_dfs) :
         LET h == h_emitted[k]
         IN /\ h.kind = "default" /\ h.data # << >>
            /\ Len(extracted_dfs[k].columns)
                 > 1 + Len(TableRows(h.blk)[h.at])
    /\ \E k \in 1..Len(extracted_dfs) :
         LET h == h_emitted[k]
         IN /\ h.kind = "default" /\ h.data # << >>
            /\ \E r \in 1..Len(h.data) :
                 Len(extracted_dfs[k].columns)
                   > 1 + Len(TableRows(h.blk)[h.data[r]])

\* ======================================================= merge_tables.py
\* Column names are texts, like cells.  A cell pandas read as missing is NAN.
COL_HYO == << "HYO" >>
COL_MEISHO == << "meisho" >>
COL_TEKIYO == << "tekiyo" >>
COL_TANI == << "TAN", "I" >>
COL_SHOYORYO == << "shoyoryo" >>
COL_BIKO == << "biko" >>
NAN == << "<NaN>" >>
PREFIX_HYO == << "HYO" >>
PREFIX_BETSUHYO == << "BETSU", "HYO" >>
Digits == { "0", "1", "2", "3", "4", "5", "6", "7", "8", "9" }

expected_base_columns ==
    << COL_HYO, SAGYOMEI, COL_MEISHO, COL_TEKIYO, COL_TANI, COL_SHOYORYO,
       COL_BIKO >>
min_group2_columns ==
    { COL_MEISHO, COL_TEKIYO, COL_TANI, COL_SHOYORYO, COL_BIKO }

Range(seq) == { seq[i] : i \in 1..Len(seq) }

\* list.index(name), 1-based; 0 when the name is absent
ColIndex(cols, name) ==
    IF name \in Range(cols)
    THEN CHOOSE i \in 1..Len(cols) :
            cols[i] = name /\ \A j \in 1..(i - 1) : cols[j] # name
    ELSE 0

\* df[name]
Column(df, name) ==
    [r \in 1..Len(df.data) |-> df.data[r][ColIndex(df.columns, name)]]

\* str(value) / astype(str): a missing cell prints as "nan"
AsStr(cell) == IF cell = NAN THEN << "n", "a", "n" >> ELSE cell

\* str.startswith
StartsWith(text, p) == Len(text) >= Len(p) /\ SubSeq(text, 1, Len(p)) = p

\* pd.read_csv(..., dtype=str) and the strip() of the column names: an empty
\* field is read as missing.
ReadCsv(file) ==
    [columns |-> [i \in 1..Len(file.columns) |-> Strip(file.columns[i])],
     data |-> [r \in 1..Len(file.data) |->
                 [i \in 1..Len(file.data[r]) |->
                    IF file.data[r][i] = EMPTY THEN NAN ELSE file.data[r][i]]]]

\* Lines 241-246: << >> is None
TableIdPrefix(first_table_id_value) ==
    IF StartsWith(first_table_id_value, PREFIX_HYO)
         /\ ~StartsWith(first_table_id_value, PREFIX_BETSUHYO)
    THEN << PREFIX_HYO >>
    ELSE IF StartsWith(first_table_id_value, PREFIX_BETSUHYO)
         THEN << PREFIX_BETSUHYO >>
         ELSE << >>

IsDigits(t) == t # << >> /\ \A i \in 1..Len(t) : t[i] \in Digits

\* (?:[.*?])*$ : nothing, or text from an opening to a closing bracket
TagsMatch(t) == t = << >> \/ (Len(t) >= 2 /\ t[1] = "[" /\ t[Len(t)] = "]")

\* re.fullmatch(rf'^{prefix}.*?-\d+-\d+(?:[.*?])*$', x)
FullMatchTableId(x, prefix) ==
    /\ StartsWith(x, prefix)
    /\ \E p \in (Len(prefix) + 1)..Len(x) :
       \E q \in (p + 2)..Len(x) :
       \E e \in (q + 1)..Len(x) :
          /\ x[p] = "-"
          /\ IsDigits(SubSeq(x, p + 1, q - 1))
          /\ x[q] = "-"
          /\ IsDigits(SubSeq(x, q + 1, e))
          /\ TagsMatch(SubSeq(x, e + 1, Len(x)))

\* Mutant: only the first value of the column is matched.
is_valid_table_id_pattern_firstOnly(df_column, prefix) ==
    IF df_column = << >> THEN FALSE
    ELSE FullMatchTableId(AsStr(df_column[1]), prefix)

is_valid_table_id_pattern(df_column, prefix) ==
    IF df_column = << >> THEN FALSE
    ELSE \A r \in 1..Len(df_column) :
            FullMatchTableId(AsStr(df_column[r]), prefix)

\* col_list[0:n]
Take(seq, n) == SubSeq(seq, 1, IF Len(seq) < n THEN Len(seq) ELSE n)

InSeq(x, seq) == x \in Range(seq)

\* Mutant: the columns are left in the order they have.
OrderedCols_asIs(current_cols, expected) == current_cols

\* Lines 96-106 / 181-191: the expected columns that are present, in the
\* expected order, then the other columns in their own order.
OrderedCols(current_cols, expected) ==
    SelectSeq(expected, LAMBDA c : InSeq(c, current_cols))
        \o SelectSeq(current_cols, LAMBDA c : ~InSeq(c, expected))

\* df[ordered_cols]
SelectCols(df, ordered_cols) ==
    [columns |-> ordered_cols,
     data |-> [r \in 1..Len(df.data) |->
                 [i \in 1..Len(ordered_cols) |->
                    df.data[r][ColIndex(df.columns, ordered_cols[i])]]]]

\* Lines 62-63 / 139-140
HasRequiredCols(col_list) ==
    /\ InSeq(COL_TANI, col_list) /\ InSeq(COL_BIKO, col_list)
    /\ InSeq(SAGYOMEI, col_list) /\ InSeq(COL_HYO, col_list)

\* Mutant: the five leading columns are not compared with the expected ones.
PrefixColsMatch_any(col_list) == TRUE

\* Lines 66 / 153: col_list[0:5] == expected_prefix_cols
PrefixColsMatch(col_list) ==
    Take(col_list, 5) = Take(expected_base_columns, 5)

\* Mutant: a column 5 that is the quantity column is merged like any other.
IsQuantityColumn_never(col_to_merge_name) == FALSE

\* Lines 74-76: col_to_merge_name == 'shoyoryo'
IsQuantityColumn(col_to_merge_name) == col_to_merge_name = COL_SHOYORYO

\* handle_special_group1_case: << >> is (None, message), << df >> is (df, None)
handle_special_group1_case(df_original) ==
    LET col_list == df_original.columns
        expected_suffix_col == expected_base_columns[7]
        col_to_merge_name == col_list[6]
        idx_unit == ColIndex(col_list, COL_TANI)
        idx_remarks == ColIndex(col_list, COL_BIKO)
        iw == ColIndex(col_list, SAGYOMEI)
        merged == [r \in 1..Len(df_original.data) |->
                     [df_original.data[r] EXCEPT
                        ![iw] = AsStr(@) \o col_to_merge_name]]
        renamed == [columns |-> [i \in 1..Len(col_list) |->
                                   IF col_list[i] = col_to_merge_name
                                   THEN COL_SHOYORYO ELSE col_list[i]],
                    data |-> merged]
    IN IF ~HasRequiredCols(col_list) THEN << >>
       ELSE IF ~PrefixColsMatch(col_list) THEN << >>
       ELSE IF Len(col_list) <= 6 \/ col_list[7] # expected_suffix_col
            THEN << >>
       ELSE IF IsQuantityColumn(col_to_merge_name) THEN << >>
       ELSE IF idx_remarks - idx_unit - 1 # 1 THEN << >>
       ELSE << SelectCols(renamed,
                          OrderedCols(renamed.columns, expected_base_columns)) >>

\* handle_multi_column_expansion_case; df.melt lists, for each melted column
\* in turn, all the rows of the frame.
handle_multi_column_expansion_case(df_original) ==
    LET col_list == df_original.columns
        idx_unit == ColIndex(col_list, COL_TANI)
        idx_remarks == ColIndex(col_list, COL_BIKO)
        columns_to_melt == SubSeq(col_list, idx_unit + 1, idx_remarks - 1)
        id_vars == SubSeq(col_list, 1, idx_unit)
                      \o SubSeq(col_list, idx_remarks, Len(col_list))
        n == Len(df_original.data)
        k == Len(columns_to_melt)
        iw == ColIndex(id_vars, SAGYOMEI)
        melted_row(j, r) ==
            LET ids == [i \in 1..Len(id_vars) |->
                          df_original.data[r][ColIndex(col_list, id_vars[i])]]
            IN [ids EXCEPT ![iw] = AsStr(@) \o AsStr(columns_to_melt[j])]
                 \o << df_original.data[r][ColIndex(col_list, columns_to_melt[j])] >>
        df_melted == [columns |-> id_vars \o << COL_SHOYORYO >>,
                      data |-> [t \in 1..(n * k) |->
                                  melted_row(((t - 1) \div n) + 1,
                                             ((t - 1) % n) + 1)]]
    IN IF InSeq(COL_SHOYORYO, col_list) THEN << >>
       ELSE IF ~HasRequiredCols(col_list) THEN << >>
       ELSE IF ~(idx_unit < idx_remarks - 1 /\ idx_remarks - idx_unit - 1 > 1)
            THEN << >>
       ELSE IF ~PrefixColsMatch(col_list) THEN << >>
       ELSE << SelectCols(df_melted,
                          OrderedCols(df_melted.columns, expected_base_columns)) >>

\* ------------------------------------------------------- the CSV files
ID_A12 == << "HYO", "A", "-", "1", "-", "2" >>
ID_A110 == << "HYO", "A", "-", "1", "-", "1", "0" >>
ID_A21tag == << "HYO", "A", "-", "2", "-", "1", "[", "s", "]" >>
ID_B11 == << "BETSU", "HYO", "-", "1", "-", "1" >>
ID_bad == << "HYO", "A" >>
ID_other == << "R", "-", "1", "-", "2" >>
COL_X == << "X" >>
COL_Y == << "Y" >>
COL_Z == << "Z" >>

RawCanonical ==
    << COL_HYO, SAGYOMEI, << " ", "meisho" >>, COL_TEKIYO, COL_TANI,
       COL_SHOYORYO, << "biko", " " >> >>
RawSingle ==
    << COL_HYO, SAGYOMEI, COL_MEISHO, COL_TEKIYO, COL_TANI, COL_X, COL_BIKO >>
RawSwapped ==
    << COL_HYO, COL_MEISHO, SAGYOMEI, COL_TEKIYO, COL_TANI, COL_X, COL_BIKO >>
RawSwapped8 ==
    << COL_HYO, COL_MEISHO, SAGYOMEI, COL_TEKIYO, COL_TANI, COL_X, COL_Y,
       COL_BIKO >>
RawMelt ==
    << COL_HYO, SAGYOMEI, COL_MEISHO, COL_TEKIYO, COL_TANI, COL_X, COL_Y,
       COL_BIKO >>
Row7(id, w, q) == << id, w, << "n" >>, << "t" >>, << "u" >>, q, << "r" >> >>
Row8(id, w, q1, q2) ==
    << id, w, << "n" >>, << "t" >>, << "u" >>, q1, q2, << "r" >> >>

\* raises: the step of the loop body at which an exception is raised for this
\* file ("read": pd.read_csv; "strict", "single", "melt": while that rule is
\* evaluated), or "none".
File(cols, data, raises) == [columns |-> cols, data |-> data, raises |-> raises]

FilePool ==
    [ strict |-> File(RawCanonical,
                      << Row7(ID_A12, << "w" >>, << "5" >>),
                         Row7(ID_A21tag, EMPTY, EMPTY) >>, "none"),
      strict8 |-> File(RawCanonical \o << COL_Z >>,
                       << Row7(ID_B11, << "w" >>, << "5" >>) \o << << "e" >> >> >>,
                       "none"),
      single |-> File(RawSingle,
                      << Row7(ID_A21tag, EMPTY, << "7" >>) >>, "none"),
      single8 |-> File(RawSingle \o << COL_Z >>,
                       << Row7(ID_B11, << "w" >>, << "7" >>) \o << << "e" >> >> >>,
                       "none"),
      melt |-> File(RawMelt,
                    << Row8(ID_A110, << "w" >>, << "1" >>, << "2" >>),
                       Row8(ID_A21tag, EMPTY, << "3" >>, EMPTY) >>, "none"),
      nohyo |-> File(<< SAGYOMEI, COL_MEISHO >>, << << << "w" >>, << "n" >> >> >>,
                     "none"),
      norows |-> File(RawCanonical, << >>, "none"),
      other |-> File(RawCanonical,
                     << Row7(ID_other, << "w" >>, << "5" >>) >>, "none"),
      blankid |-> File(Take(RawCanonical, 6),
                       << Take(Row7(EMPTY, << "w" >>, << "5" >>), 6) >>, "none"),
      nobiko |-> File(Take(RawCanonical, 6),
                      << Take(Row7(ID_A12, << "w" >>, << "5" >>), 6) >>, "none"),
      few |-> File(Take(RawCanonical, 3),
                   << Take(Row7(ID_B11, << "w" >>, << "5" >>), 3) >>, "none"),
      badrow |-> File(RawCanonical,
                      << Row7(ID_A12, << "w" >>, << "5" >>),
                         Row7(ID_bad, << "w" >>, << "6" >>) >>, "none"),
      mixed |-> File(RawCanonical,
                     << Row7(ID_A12, << "w" >>, << "5" >>),
                        Row7(ID_B11, << "w" >>, << "6" >>) >>, "none"),
      singlebad |-> File(RawSingle,
                         << Row7(ID_bad, << "w" >>, << "7" >>) >>, "none"),
      swapped |-> File(RawSwapped,
                       << Row7(ID_A12, << "w" >>, << "7" >>) >>, "none"),
      swapped8 |-> File(RawSwapped8,
                        << Row8(ID_B11, << "w" >>, << "1" >>, << "2" >>) >>,
                        "none"),
      unreadable |-> File(RawCanonical,
                          << Row7(ID_A12, << "w" >>, << "5" >>) >>, "read"),
      xstrict |-> File(RawCanonical,
                       << Row7(ID_A12, << "w" >>, << "5" >>) >>, "strict"),
      xsingle |-> File(RawCanonical,
                       << Row7(ID_other, << "w" >>, << "5" >>) >>, "single"),
      xmelt |-> File(Take(RawCanonical, 6),
                     << Take(Row7(ID_A12, << "w" >>, << "7" >>), 6) >>, "melt") ]
Paths == DOMAIN FilePool

\* ------------------------------------------- one iteration of the sweep
\* Mutant: the "continue" after a Group1 classification is missing.
SkipsRest_never(is_classified_as_group1) == FALSE

\* Lines 283-284: a file classified as Group1 skips the rest of the body.
SkipsRest(is_classified_as_group1) == is_classified_as_group1

\* Mutant: the Group2 test comes before the Group4 test.
FallThrough_group2First(prefix, col_list) ==
    IF Cardinality(min_group2_columns \ Range(col_list)) = 1 THEN "group2"
    ELSE IF prefix = << >> THEN "group4"
         ELSE "group3"

\* Lines 286-304: the list of a file that is not Group1.
FallThrough(prefix, col_list) ==
    IF prefix = << >> THEN "group4"
    ELSE IF Cardinality(min_group2_columns \ Range(col_list)) = 1
         THEN "group2"
         ELSE "group3"

\* Mutant: the except clause only logs.
ExceptAppends_none == << >>

\* Lines 306-308: what the except clause appends.
ExceptAppends == << << "group3", << >> >> >>

\* The outcome of lines 227-308 for one file: the appends made, in order, each
\* << list, DataFrame >> (the DataFrame is << >> for the lists of paths), the
\* rule that decided, and whether the except clause was taken.
Outcome(appends, via, raised) ==
    [appends |-> appends, via |-> via, raised |-> raised]

Classify(file) ==
    LET df == ReadCsv(file)
        col_list == df.columns
        first_table_id_value == AsStr(Column(df, COL_HYO)[1])
        prefix == TableIdPrefix(first_table_id_value)
        group1 == IF prefix = << PREFIX_HYO >> THEN "main" ELSE "annex"
        \* 1. the strict column structure
        strict_cols == Len(col_list) >= 7
                         /\ Take(col_list, 7) = expected_base_columns
        strict == strict_cols /\ prefix # << >>
                    /\ is_valid_table_id_pattern(Column(df, COL_HYO), prefix[1])
        a_strict == IF strict THEN << << group1, << df >> >> >> ELSE << >>
        flag1 == strict
        \* 2. the single-column reshape
        single_df == handle_special_group1_case(df)
        single == ~flag1 /\ single_df # << >> /\ prefix # << >>
                    /\ is_valid_table_id_pattern(
                           Column(single_df[1], COL_HYO), prefix[1])
        a_single == IF single THEN << << group1, single_df >> >> ELSE << >>
        flag2 == flag1 \/ single
        \* 3. the multi-column reshape
        melt_df == handle_multi_column_expansion_case(df)
        melt == ~flag2 /\ melt_df # << >> /\ prefix # << >>
                    /\ is_valid_table_id_pattern(
                           Column(melt_df[1], COL_HYO), prefix[1])
        a_melt == IF melt THEN << << group1, melt_df >> >> ELSE << >>
        flag3 == flag2 \/ melt
        a_rest == IF SkipsRest(flag3) THEN << >>
                  ELSE << << FallThrough(prefix, col_list), << >> >> >>
        via == IF strict THEN "strict" ELSE IF single THEN "single"
               ELSE IF melt THEN "melt" ELSE FallThrough(prefix, col_list)
    IN IF file.raises = "read" THEN Outcome(ExceptAppends, "except", TRUE)
       ELSE IF ~InSeq(COL_HYO, col_list) \/ df.data = << >>
            THEN Outcome(<< << "group3", << >> >> >>, "reject", FALSE)
       ELSE IF strict_cols /\ prefix # << >> /\ file.raises = "strict"
            THEN Outcome(ExceptAppends, "except", TRUE)
       ELSE IF ~flag1 /\ file.raises = "single"
            THEN Outcome(a_strict \o ExceptAppends, "except", TRUE)
       ELSE IF ~flag2 /\ file.raises = "melt"
            THEN Outcome(a_strict \o a_single \o ExceptAppends, "except", TRUE)
       ELSE Outcome(a_strict \o a_single \o a_melt \o a_rest, via, FALSE)

\* list.append for each append of an iteration that names the list
Appended(list, name, appends, file_path) ==
    list \o [i \in 1..Len(SelectSeq(appends, LAMBDA a : a[1] = name)) |->
               LET a == SelectSeq(appends, LAMBDA b : b[1] = name)[i]
               IN IF a[2] = << >> THEN file_path ELSE << a[2][1], file_path >>]

\* ---------------------------------------------------------- the Merger
DigitSeq == << "0", "1", "2", "3", "4", "5", "6", "7", "8", "9" >>
DigitVal(d) == ColIndex(DigitSeq, d) - 1

RECURSIVE ToInt(_)
\* int(digits)
ToInt(t) ==
    IF t = << >> THEN 0 ELSE ToInt(SubSeq(t, 1, Len(t) - 1)) * 10 + DigitVal(t[Len(t)])

\* The digits of x from position i on
DigitRun(x, i) ==
    LET ends == { e \in (i - 1)..Len(x) : \A j \in i..e : x[j] \in Digits }
    IN SubSeq(x, i, CHOOSE e \in ends : \A f \in ends : f <= e)

\* re.search(rf'^{prefix}.*?-(\d+)-(\d+)', value) at the dash in position p
KeyAt(x, p) ==
    LET major == DigitRun(x, p + 1)
        q == p + 1 + Len(major)
    IN /\ x[p] = "-"
       /\ major # << >>
       /\ q <= Len(x) /\ x[q] = "-"
       /\ DigitRun(x, q + 1) # << >>

\* extract_table_sort_keys: << 0, major, minor >>, or << 1, 0, 0 >> for
\* (inf, inf)
extract_table_sort_keys(table_value, prefix) ==
    LET x == AsStr(table_value)
        hits == { p \in (Len(prefix) + 1)..Len(x) : KeyAt(x, p) }
    IN IF StartsWith(x, prefix) /\ hits # { }
       THEN LET p == CHOOSE h \in hits : \A g \in hits : h <= g
                major == DigitRun(x, p + 1)
            IN << 0, ToInt(major), ToInt(DigitRun(x, p + 2 + Len(major))) >>
       ELSE << 1, 0, 0 >>

\* Mutant: the minor number is compared before the major number.
KeyLeq_minorFirst(a, b) ==
    \/ a[1] < b[1]
    \/ a[1] = b[1] /\ a[3] < b[3]
    \/ a[1] = b[1] /\ a[3] = b[3] /\ a[2] <= b[2]

\* key(a) <= key(b), as Python compares the tuples
KeyLeq(a, b) ==
    \/ a[1] < b[1]
    \/ a[1] = b[1] /\ a[2] < b[2]
    \/ a[1] = b[1] /\ a[2] = b[2] /\ a[3] <= b[3]

\* x[0].iloc[0]['hyo']
SortKey(item, prefix) ==
    extract_table_sort_keys(Column(item[1], COL_HYO)[1], prefix)

\* x placed after the items whose key is not greater (list.sort is stable)
InsertSorted(sorted, x, prefix) ==
    LET n == Cardinality({ i \in 1..Len(sorted) :
                  KeyLeq(SortKey(sorted[i], prefix), SortKey(x, prefix)) })
        pos == IF \E i \in 1..Len(sorted) :
                     ~KeyLeq(SortKey(sorted[i], prefix), SortKey(x, prefix))
               THEN (CHOOSE i \in 1..Len(sorted) :
                        /\ ~KeyLeq(SortKey(sorted[i], prefix), SortKey(x, prefix))
                        /\ \A j \in 1..(i - 1) :
                             KeyLeq(SortKey(sorted[j], prefix), SortKey(x, prefix)))
               ELSE Len(sorted) + 1
    IN SubSeq(sorted, 1, pos - 1) \o << x >> \o SubSeq(sorted, pos, Len(sorted))

RECURSIVE SortedByKey(_, _)
\* list.sort(key=...)
SortedByKey(items, prefix) ==
    IF items = << >> THEN << >>
    ELSE InsertSorted(SortedByKey(SubSeq(items, 1, Len(items) - 1), prefix),
                      items[Len(items)], prefix)

RECURSIVE UnionCols(_)
\* the columns of pd.concat: each column where it first appears
UnionCols(dfs) ==
    IF dfs = << >> THEN << >>
    ELSE LET before == UnionCols(SubSeq(dfs, 1, Len(dfs) - 1))
         IN before \o SelectSeq(dfs[Len(dfs)].columns,
                                LAMBDA c : ~InSeq(c, before))

RECURSIVE ConcatRows(_, _)
ConcatRows(dfs, cols) ==
    IF dfs = << >> THEN << >>
    ELSE LET df == Head(dfs)
         IN [r \in 1..Len(df.data) |->
               [i \in 1..Len(cols) |->
                  IF InSeq(cols[i], df.columns)
                  THEN df.data[r][ColIndex(df.columns, cols[i])]
                  ELSE NAN]]
            \o ConcatRows(Tail(dfs), cols)

\* pd.concat([...], ignore_index=True)
Concat(dfs) ==
    [columns |-> UnionCols(dfs), data |-> ConcatRows(dfs, UnionCols(dfs))]

Frames(items) == [i \in 1..Len(items) |-> items[i][1]]

\* ------------------------------------------------------------ the sweep
ClsInit ==
    /\ cpc = "sweep"
    /\ swept = << >>
    /\ group1_main_dfs = << >>
    /\ group1_annex_dfs = << >>
    /\ group2_files = << >>
    /\ group3_files = << >>
    /\ group4_files = << >>
    /\ main_csv = << >>
    /\ annex_csv = << >>
    /\ h_outcome = << >>

\* Lines 226-308: one file of all_csv_paths.
ClassifyFile ==
    /\ cpc = "sweep"
    /\ Len(swept) < MaxFiles
    /\ \E file_path \in Paths \ Range(swept) :
         LET o == Classify(FilePool[file_path])
         IN /\ swept' = Append(swept, file_path)
            /\ h_outcome' = Append(h_outcome, o)
            /\ group1_main_dfs' =
                 Appended(group1_main_dfs, "main", o.appends, file_path)
            /\ group1_annex_dfs' =
                 Appended(group1_annex_dfs, "annex", o.appends, file_path)
            /\ group2_files' =
                 Appended(group2_files, "group2", o.appends, file_path)
            /\ group3_files' =
                 Appended(group3_files, "group3", o.appends, file_path)
            /\ group4_files' =
                 Appended(group4_files, "group4", o.appends, file_path)
    /\ UNCHANGED << segVars, batVars, runVars, cpc, main_csv, annex_csv >>

\* Lines 310-326: sort, concatenate and write the two datasets.
Merge ==
    /\ cpc = "sweep"
    /\ group1_main_dfs' = SortedByKey(group1_main_dfs, PREFIX_HYO)
    /\ group1_annex_dfs' = SortedByKey(group1_annex_dfs, PREFIX_BETSUHYO)
    /\ main_csv' = IF group1_main_dfs # << >>
                   THEN << Concat(Frames(group1_main_dfs')) >> ELSE main_csv
    /\ annex_csv' = IF group1_annex_dfs # << >>
                    THEN << Concat(Frames(group1_annex_dfs')) >> ELSE annex_csv
    /\ cpc' = "done"
    /\ UNCHANGED << segVars, batVars, runVars, swept, group2_files, group3_files,
                    group4_files, h_outcome >>

ClsNext ==
    \/ ClassifyFile
    \/ Merge

ClsSpecInit == SegIdle /\ ClsInit /\ BatIdle /\ RunIdle

ClsSpec == ClsSpecInit /\ [][ClsNext]_vars

\* ================================== extract_tables_fromW.py, __main__
\* A document of the input folder: its file name is "<name>_page_<page>.docx"
\* when page is << digits >>, and has no page index when page is << >>;
\* tables is the number of DataFrames extract_tables_from_docx returns for it;
\* raises is "extract" when extract_tables_from_docx raises (a file that is
\* no Word document), "save" when save_dfs_to_csv raises, else "none".
Doc(name, page, tables, raises) ==
    [name |-> name, page |-> page, tables |-> tables, raises |-> raises]

DocPool ==
    { Doc("a", << << "1" >> >>, 2, "none"),
      Doc("b", << << "2" >> >>, 1, "none"),
      Doc("c", << << "1", "0" >> >>, 0, "none"),
      Doc("d", << << "3" >> >>, 1, "extract"),
      Doc("e", << << "0", "2" >> >>, 2, "save"),
      Doc("f", << >>, 1, "none"),
      Doc("g", << << "1" >> >>, 1, "none"),
      Doc("h", << >>, 2, "none") }

\* Line 209: int(page) when the name has a page index, else 0
DocKey(doc) == IF doc.page # << >> THEN ToInt(doc.page[1]) ELSE 0

\* Line 219: page_number
PageNumber(doc) ==
    IF doc.page # << >> THEN doc.page[1] ELSE << "unknown_page" >>

RECURSIVE SortedDocs(_)
\* docx_files.sort(key=...): stable
SortedDocs(files) ==
    IF files = << >> THEN << >>
    ELSE LET sorted == SortedDocs(SubSeq(files, 1, Len(files) - 1))
             x == files[Len(files)]
             n == Cardinality({ i \in 1..Len(sorted) :
                                  DocKey(sorted[i]) <= DocKey(x) })
             pos == IF \E i \in 1..Len(sorted) : DocKey(sorted[i]) > DocKey(x)
                    THEN (CHOOSE i \in 1..Len(sorted) :
                             /\ DocKey(sorted[i]) > DocKey(x)
                             /\ \A j \in 1..(i - 1) :
                                  DocKey(sorted[j]) <= DocKey(x))
                    ELSE Len(sorted) + 1
         IN SubSeq(sorted, 1, pos - 1) \o << x >>
               \o SubSeq(sorted, pos, Len(sorted))

\* os.listdir: the documents of the folder, in any order
Listings ==
    { files \in UNION { [1..n -> DocPool] : n \in 0..MaxDocs } :
         \A i, j \in 1..Len(files) : i # j => files[i] # files[j] }

\* Lines 207-214
BatInit ==
    /\ bpc = "loop"
    /\ \E files \in Listings : docx_files = SortedDocs(files)
    /\ doc_i = 0
    /\ saved = { }
    /\ total_extracted_tables = 0

\* save_dfs_to_csv: the file names "<page_number>-<i+1>.csv"
CsvNames(doc) == { << PageNumber(doc), i >> : i \in 1..doc.tables }

\* Lines 215-228, a document that is extracted and saved
ProcessDoc ==
    /\ bpc = "loop"
    /\ doc_i < Len(docx_files)
    /\ LET doc == docx_files[doc_i + 1]
       IN /\ doc.raises = "none" \/ (doc.raises = "save" /\ doc.tables = 0)
          /\ saved' = IF doc.tables > 0 THEN saved \cup CsvNames(doc) ELSE saved
          /\ total_extracted_tables' = total_extracted_tables + doc.tables
    /\ doc_i' = doc_i + 1
    /\ UNCHANGED << segVars, clsVars, runVars, bpc, docx_files >>

\* Lines 222 and 225 are in no try block: an exception of
\* extract_tables_from_docx or save_dfs_to_csv ends the program.  The
\* DataFrames written before save_dfs_to_csv raised stay on disk.
DocRaises ==
    /\ bpc = "loop"
    /\ doc_i < Len(docx_files)
    /\ LET doc == docx_files[doc_i + 1]
       IN \/ doc.raises = "extract" /\ saved' = saved
          \/ /\ doc.raises = "save" /\ doc.tables > 0
             /\ \E written \in 0..(doc.tables - 1) :
                  saved' = saved \cup { << PageNumber(doc), i >> : i \in 1..written }
    /\ bpc' = "crashed"
    /\ UNCHANGED << segVars, clsVars, runVars, docx_files, doc_i,
                    total_extracted_tables >>

\* Lines 230-233: the loop is over
BatchEnd ==
    /\ bpc = "loop"
    /\ doc_i = Len(docx_files)
    /\ bpc' = "finished"
    /\ UNCHANGED << segVars, clsVars, runVars, docx_files, doc_i, saved,
                    total_extracted_tables >>

BatNext ==
    \/ ProcessDoc
    \/ DocRaises
    \/ BatchEnd

BatSpecInit == SegIdle /\ ClsIdle /\ BatInit /\ RunIdle

BatSpec == BatSpecInit /\ [][BatNext]_vars

\* ================================================= claims: the Classifier
PathsOf(items) == [i \in 1..Len(items) |-> items[i][2]]
Count(seq, x) == Cardinality({ i \in 1..Len(seq) : seq[i] = x })
Group1Paths == Range(PathsOf(group1_main_dfs)) \cup Range(PathsOf(group1_annex_dfs))
Group1Items == Range(group1_main_dfs) \cup Range(group1_annex_dfs)

\* The number of entries the five lists hold for a path
Entries(path) ==
    Count(PathsOf(group1_main_dfs), path) + Count(PathsOf(group1_annex_dfs), path)
      + Count(group2_files, path) + Count(group3_files, path)
      + Count(group4_files, path)

\* C6: every file swept is in exactly one of the five lists, once (so it gives
\* at most one Grid to the Group1 lists and a Group1 file is in none of
\* Group2, Group3, Group4); a file not yet swept is in none.
C6_ExactlyOneBucket ==
    \A path \in Paths :
        Entries(path) = IF path \in Range(swept) THEN 1 ELSE 0

\* C6 witness: three files were swept and merged, one by each Group1 rule.
C6_Witness ==
    /\ cpc = "done"
    /\ Len(swept) = 3
    /\ { h_outcome[k].via : k \in 1..Len(h_outcome) }
          = { "strict", "single", "melt" }

\* C7: when the handling of a file raises, the file is appended to Group3 and
\* to no other list, the other lists are as they were, and the sweep goes on
\* (files swept after it are classified as usual).
C7_ErrorIsolation ==
    [][ (swept' # swept /\ Last(h_outcome').raised) =>
          /\ group3_files' = Append(group3_files, Last(swept'))
          /\ group1_main_dfs' = group1_main_dfs
          /\ group1_annex_dfs' = group1_annex_dfs
          /\ group2_files' = group2_files
          /\ group4_files' = group4_files
          /\ cpc' = "sweep"
      ]_vars

\* C7 witness: the first file raised while a reshape rule was evaluated, and
\* the file swept after it is in Group1-Main.
C7_Witness ==
    /\ Len(swept) >= 2
    /\ h_outcome[1].raised
    /\ FilePool[swept[1]].raises \in { "single", "melt" }
    /\ swept[1] \in Range(group3_files)
    /\ swept[2] \in Range(PathsOf(group1_main_dfs))

ColsAfterRemarks(path) ==
    LET cols == ReadCsv(FilePool[path]).columns
    IN SubSeq(cols, ColIndex(cols, COL_BIKO) + 1, Len(cols))

DistinctCols(path) ==
    LET cols == ReadCsv(FilePool[path]).columns
    IN Cardinality(Range(cols)) = Len(cols)

LadderGroup(path) ==
    LET df == ReadCsv(FilePool[path])
        first == AsStr(df.data[1][ColIndex(df.columns, COL_HYO)])
        absent == { c \in { COL_MEISHO, COL_TEKIYO, COL_TANI, COL_SHOYORYO,
                            COL_BIKO } : c \notin Range(df.columns) }
    IN IF COL_HYO \notin Range(df.columns) \/ Len(df.data) = 0 THEN "group3"
       ELSE IF ~StartsWith(first, << "HYO" >>)
                 /\ ~StartsWith(first, << "BETSU", "HYO" >>) THEN "group4"
       ELSE IF Cardinality(absent) = 1 THEN "group2"
       ELSE "group3"

InGroup(path, group) ==
    /\ (group = "group2") = (path \in Range(group2_files))
    /\ (group = "group3") = (path \in Range(group3_files))
    /\ (group = "group4") = (path \in Range(group4_files))

Readable(path) == FilePool[path].raises # "read"

C8_FailureDoesNotAbortBatch ==
    bpc \in { "finished", "crashed" } =>
        \A k \in 1..Len(docx_files) :
            docx_files[k].raises = "none" =>
                /\ k <= doc_i
                /\ CsvNames(docx_files[k]) \subseteq saved

\* ============================================ claims: the reshape rules
\* The text a cell holds in the file: a missing cell holds the empty text
CellText(cell) == IF cell = NAN THEN EMPTY ELSE cell

\* The list item of a path in the Group1 lists
Group1ItemOf(path) == CHOOSE item \in Group1Items : item[2] = path

\* The Grid is one the single-column merge is claimed for: columns
\* [hyo, sagyomei, meisho, tekiyo, tani, X, biko, ...] with X not shoyoryo,
\* and every table value matching the pattern of the prefix of the first.
SingleMergeCase(df) ==
    /\ Len(df.columns) >= 7 /\ df.data # << >>
    /\ Take(df.columns, 5) = Take(expected_base_columns, 5)
    /\ df.columns[6] # COL_SHOYORYO
    /\ df.columns[7] = COL_BIKO
    /\ Cardinality(Range(df.columns)) = Len(df.columns)
    /\ LET prefix == TableIdPrefix(AsStr(Column(df, COL_HYO)[1]))
       IN prefix # << >>
            /\ is_valid_table_id_pattern(Column(df, COL_HYO), prefix[1])

\* out is df with column 6 renamed and its name appended to the work names
SingleMergeResult(df, out) ==
    /\ out.columns = [df.columns EXCEPT ![6] = COL_SHOYORYO]
    /\ Len(out.data) = Len(df.data)
    /\ \A r \in 1..Len(df.data) :
         /\ Len(out.data[r]) = Len(df.data[r])
         /\ \A i \in 1..Len(df.columns) :
              out.data[r][i] =
                 IF i = 2 THEN CellText(df.data[r][i]) \o df.columns[6]
                 ELSE df.data[r][i]

\* C11 (as claimed): a swept file in the single-column-merge case is in
\* Group1 with a Grid whose sixth column is renamed to the quantity column
\* with its cells unchanged, whose work-name cells are the original cells
\* followed by the name of that column, and whose other cells, row count and
\* column order are those of the file.
C11_SingleColumnMerge ==
    \A k \in 1..Len(swept) :
        LET df == ReadCsv(FilePool[swept[k]])
        IN (SingleMergeCase(df) /\ ~h_outcome[k].raised) =>
              /\ swept[k] \in Group1Paths
              /\ SingleMergeResult(df, Group1ItemOf(swept[k])[1])

\* The Grid of the file was reshaped by the multi-column expansion
MeltApplied(k) == ~h_outcome[k].raised /\ h_outcome[k].via = "melt"

\* Row t of out is the expansion of row r of df by its intervening column j
MeltRowOf(df, out, t, r, j) ==
    LET idx_unit == ColIndex(df.columns, COL_TANI)
        name == df.columns[idx_unit + j]
    IN \A c \in 1..Len(out.columns) :
          out.data[t][c] =
             IF out.columns[c] = COL_SHOYORYO THEN df.data[r][idx_unit + j]
             ELSE IF out.columns[c] = SAGYOMEI
                  THEN CellText(df.data[r][ColIndex(df.columns, SAGYOMEI)])
                          \o name
                  ELSE df.data[r][ColIndex(df.columns, out.columns[c])]

\* out has one row for each pair (row of df, intervening column), and the
\* rows of one row of df are in the order of the intervening columns
MeltResult(df, out) ==
    LET n == Len(df.data)
        k == ColIndex(df.columns, COL_BIKO) - ColIndex(df.columns, COL_TANI) - 1
    IN /\ k >= 2
       /\ Len(out.data) = n * k
       /\ \E pos \in [ (1..n) \X (1..k) -> 1..(n * k) ] :
            /\ \A a, b \in (1..n) \X (1..k) : a # b => pos[a] # pos[b]
            /\ \A r \in 1..n : \A j \in 1..k :
                  MeltRowOf(df, out, pos[<< r, j >>], r, j)
            /\ \A r \in 1..n : \A j \in 1..(k - 1) :
                  pos[<< r, j >>] < pos[<< r, j + 1 >>]

\* C12 (as claimed): when the multi-column expansion applied to a file with n
\* rows and k >= 2 columns between the unit and the remarks column, the Grid
\* has n * k rows, one for each pair of a row and an intervening column; its
\* quantity is that cell, its work name is the original work name followed by
\* the name of the column, its other cells are copied; and the rows of one
\* original row are in the left-to-right order of the intervening columns.
C12_MeltOutput ==
    \A k \in 1..Len(swept) :
        MeltApplied(k) =>
            MeltResult(ReadCsv(FilePool[swept[k]]), Group1ItemOf(swept[k])[1])

\* The Grid fails the layout the claim names: columns 0-4 are not the five
\* leading canonical columns, or column 6 is not the remarks column
NotReshapeLayout(df) ==
    \/ Take(df.columns, 5) # Take(expected_base_columns, 5)
    \/ Len(df.columns) < 7
    \/ df.columns[7] # COL_BIKO

\* The number of columns between the unit and the remarks column
Intervening(df) ==
    ColIndex(df.columns, COL_BIKO) - ColIndex(df.columns, COL_TANI) - 1

\* The Grids read from the files swept so far
SweptGrids == { ReadCsv(FilePool[swept[k]]) : k \in 1..Len(swept) }

\* C13 (as claimed): both reshapes are not applicable to every Grid whose
\* columns 0-4 are not the leading canonical columns or whose column 6 is not
\* the remarks column; the multi-column expansion never applies to a Grid
\* whose column 6 is not the remarks column.
C13_ReshapePreconditions ==
    \A df \in SweptGrids :
        NotReshapeLayout(df) =>
            /\ handle_special_group1_case(df) = << >>
            /\ handle_multi_column_expansion_case(df) = << >>

\* C13 (amended): the single-column merge is not applicable to every Grid
\* whose columns 0-4 are not the leading canonical columns or whose column 6
\* is not the remarks column; the multi-column expansion is not applicable to
\* every Grid whose columns 0-4 are not the leading canonical columns, that
\* has a quantity column, or that has fewer than two columns between the unit
\* and the remarks column, so it applies only where column 6 is not the
\* remarks column.
C13_ReshapePreconditionsPerRule ==
    \A df \in SweptGrids :
        /\ NotReshapeLayout(df) => handle_special_group1_case(df) = << >>
        /\ ( \/ Take(df.columns, 5) # Take(expected_base_columns, 5)
             \/ COL_SHOYORYO \in Range(df.columns)
             \/ COL_BIKO \notin Range(df.columns)
             \/ Intervening(df) < 2 )
              => handle_multi_column_expansion_case(df) = << >>
        /\ handle_multi_column_expansion_case(df) # << >>
              => /\ Len(df.columns) >= 8
                 /\ df.columns[7] # COL_BIKO

\* C13 witness: the sweep read a Grid with the leading columns out of order
\* and one column before the remarks column, one with two, and a Grid the
\* expansion applied to.
C13_Witness ==
    /\ \E df \in SweptGrids :
         /\ Take(df.columns, 5) # Take(expected_base_columns, 5)
         /\ HasRequiredCols(df.columns) /\ Intervening(df) = 1
    /\ \E df \in SweptGrids :
         /\ Take(df.columns, 5) # Take(expected_base_columns, 5)
         /\ HasRequiredCols(df.columns) /\ Intervening(df) = 2
         /\ COL_SHOYORYO \notin Range(df.columns)
    /\ \E k \in 1..Len(swept) : MeltApplied(k)

\* ================================================== claims: the Merger
\* The position of a path in the order of discovery
Discovered(path) == ColIndex(swept, path)

\* The pair (major, minor) of the first table value of a list item
MajorMinor(item, prefix) ==
    LET key == SortKey(item, prefix) IN << key[2], key[3] >>

\* Item a is to come before item b
Precedes(a, b, prefix) ==
    LET ka == SortKey(a, prefix)
        kb == SortKey(b, prefix)
    IN \/ ka[1] = 0 /\ kb[1] = 1
       \/ /\ ka[1] = kb[1]
          /\ \/ ka[2] < kb[2]
             \/ ka[2] = kb[2] /\ ka[3] < kb[3]
             \/ ka = kb /\ Discovered(a[2]) < Discovered(b[2])

RECURSIVE RowsBefore(_, _)
\* The number of rows of the items before item i
RowsBefore(items, i) ==
    IF i = 1 THEN 0
    ELSE RowsBefore(items, i - 1) + Len(items[i - 1][1].data)

\* The dataset holds the rows of the items, item after item, each item's rows
\* in their order
RowsInOrder(items, csv) ==
    /\ Len(csv.data) = RowsBefore(items, Len(items) + 1)
    /\ \A i \in 1..Len(items) :
         LET df == items[i][1]
         IN \A r \in 1..Len(df.data) : \A c \in 1..Len(df.columns) :
               csv.data[RowsBefore(items, i) + r]
                       [ColIndex(csv.columns, df.columns[c])] = df.data[r][c]

MergedInOrder(items, csv, prefix) ==
    /\ \A i, j \in 1..Len(items) : i < j => Precedes(items[i], items[j], prefix)
    /\ items # << >> => csv # << >> /\ RowsInOrder(items, csv[1])

\* The sort keys of the first table values of the Grids swept so far
SweptKeys(prefix) ==
    { extract_table_sort_keys(df.data[1][ColIndex(df.columns, COL_HYO)], prefix) :
        df \in { dg \in SweptGrids :
                   COL_HYO \in Range(dg.columns) /\ dg.data # << >> } }

\* A table value of which the key pattern finds no numbers sorts after every
\* value of which it does
UnmatchedKeysLast ==
    \A prefix \in { PREFIX_HYO, PREFIX_BETSUHYO } :
        \A pair \in SweptKeys(prefix) \X SweptKeys(prefix) :
            (pair[1][1] = 0 /\ pair[2][1] = 1)
               => (KeyLeq(pair[1], pair[2]) /\ ~KeyLeq(pair[2], pair[1]))

\* C14: when the datasets are written, the Grids of each Group1 list are in
\* ascending order of the numbers (major, minor) of their first table value,
\* Grids with equal numbers in their order of discovery, Grids without
\* numbers last; and each dataset is the rows of its Grids in that order, the
\* rows of each Grid in their own order.
C14_MergerOrder ==
    /\ UnmatchedKeysLast
    /\ cpc = "done" =>
         /\ MergedInOrder(group1_main_dfs, main_csv, PREFIX_HYO)
         /\ MergedInOrder(group1_annex_dfs, annex_csv, PREFIX_BETSUHYO)

\* C14 witness: three Grids with the numbers (1,2), (1,10) and (2,1) were
\* discovered in the reverse of that order and merged.
C14_Witness ==
    /\ cpc = "done"
    /\ Len(group1_main_dfs) = 3
    /\ MajorMinor(group1_main_dfs[1], PREFIX_HYO) = << 1, 2 >>
    /\ MajorMinor(group1_main_dfs[2], PREFIX_HYO) = << 1, 10 >>
    /\ MajorMinor(group1_main_dfs[3], PREFIX_HYO) = << 2, 1 >>
    /\ Discovered(group1_main_dfs[1][2]) = 3
    /\ Discovered(group1_main_dfs[3][2]) = 1
    /\ Len(main_csv[1].data) = 7

\* Two Grids with equal numbers were merged, and one without numbers swept
C14_TieReached ==
    /\ cpc = "done"
    /\ Len(group1_annex_dfs) = 2
    /\ MajorMinor(group1_annex_dfs[1], PREFIX_BETSUHYO)
         = MajorMinor(group1_annex_dfs[2], PREFIX_BETSUHYO)
    /\ \E df \in SweptGrids :
         /\ COL_HYO \in Range(df.columns) /\ df.data # << >>
         /\ extract_table_sort_keys(Column(df, COL_HYO)[1], PREFIX_HYO)[1] = 1

\* ============================================= claims: the rule priority
\* The Grid satisfies the strict rule: its first seven columns are the
\* canonical ones and every table value matches the pattern of the prefix
StrictCase(df) ==
    /\ Len(df.columns) >= 7 /\ df.data # << >>
    /\ Take(df.columns, 7) = expected_base_columns
    /\ LET prefix == TableIdPrefix(AsStr(Column(df, COL_HYO)[1]))
       IN prefix # << >>
            /\ is_valid_table_id_pattern(Column(df, COL_HYO), prefix[1])

\* C15: the single-column merge is not applicable to a Grid whose column 5 is
\* the quantity column, so never to its own output; a file whose Grid
\* satisfies the strict rule is in Group1 by the strict rule, with the Grid as
\* it was read and no reshape applied.
C15_StrictBeforeReshape ==
    /\ \A df \in SweptGrids :
         LET out == handle_special_group1_case(df)
         IN /\ (Len(df.columns) >= 6 /\ df.columns[6] = COL_SHOYORYO)
                  => out = << >>
            /\ out # << >> => handle_special_group1_case(out[1]) = << >>
    /\ \A k \in 1..Len(swept) :
         LET df == ReadCsv(FilePool[swept[k]])
         IN (StrictCase(df) /\ ~h_outcome[k].raised) =>
               /\ h_outcome[k].via = "strict"
               /\ Len(h_outcome[k].appends) = 1
               /\ swept[k] \in Group1Paths
               /\ Group1ItemOf(swept[k])[1] = df

\* C15 witness: a file with the strict layout and one with eight columns are
\* in Group1 by the strict rule, and the single-column merge reshaped a third.
C15_Witness ==
    /\ Len(swept) = 3
    /\ \E k \in 1..3 :
         /\ StrictCase(ReadCsv(FilePool[swept[k]]))
         /\ Len(FilePool[swept[k]].columns) = 7
         /\ h_outcome[k].via = "strict"
    /\ \E k \in 1..3 :
         /\ StrictCase(ReadCsv(FilePool[swept[k]]))
         /\ Len(FilePool[swept[k]].columns) = 8
         /\ h_outcome[k].via = "strict"
    /\ \E k \in 1..3 :
         /\ h_outcome[k].via = "single"
         /\ handle_special_group1_case(ReadCsv(FilePool[swept[k]])) # << >>

\* ============================ merge_tables.py, __main__, run twice
\* Lines 347-348: the two datasets are written into the input root
MAIN_OUT == "combined_group1_main"
ANNEX_OUT == "combined_group1_annex"

\* df.to_csv(path, index=False): a missing cell is written as an empty field
WrittenFile(df) ==
    File(df.columns,
         [r \in 1..Len(df.data) |->
            [i \in 1..Len(df.data[r]) |->
               IF df.data[r][i] = NAN THEN EMPTY ELSE df.data[r][i]]],
         "none")

\* The file a path of the input root holds
FileAt(file_path) ==
    IF file_path = MAIN_OUT THEN WrittenFile(main_csv[1])
    ELSE IF file_path = ANNEX_OUT THEN WrittenFile(annex_csv[1])
    ELSE FilePool[file_path]

\* The input files of a root: distinct paths in the order os.walk gives them
Roots ==
    { paths \in UNION { [1..n -> Paths] : n \in 0..MaxRootFiles } :
         \A i, j \in 1..Len(paths) : i # j => paths[i] # paths[j] }

\* seq with x at any position
Inserted(seq, x) ==
    { SubSeq(seq, 1, p) \o << x >> \o SubSeq(seq, p + 1, Len(seq)) :
         p \in 0..Len(seq) }

\* Lines 217-223 at the second run: the input files in the order of the first
\* run, and each dataset the first run wrote, wherever os.walk lists it
WalkAgain(paths) ==
    LET with_main == IF main_csv # << >> THEN Inserted(paths, MAIN_OUT)
                     ELSE { paths }
    IN IF annex_csv # << >>
       THEN UNION { Inserted(w, ANNEX_OUT) : w \in with_main }
       ELSE with_main

RunInit ==
    /\ ClsInit
    /\ run = 1
    /\ all_csv_paths \in Roots
    /\ h_first_main = << >>
    /\ h_first_annex = << >>

\* Lines 226-308: the next file of all_csv_paths
SweepFile ==
    /\ cpc = "sweep"
    /\ Len(swept) < Len(all_csv_paths)
    /\ LET file_path == all_csv_paths[Len(swept) + 1]
           o == Classify(FileAt(file_path))
       IN /\ swept' = Append(swept, file_path)
          /\ h_outcome' = Append(h_outcome, o)
          /\ group1_main_dfs' =
               Appended(group1_main_dfs, "main", o.appends, file_path)
          /\ group1_annex_dfs' =
               Appended(group1_annex_dfs, "annex", o.appends, file_path)
          /\ group2_files' =
               Appended(group2_files, "group2", o.appends, file_path)
          /\ group3_files' =
               Appended(group3_files, "group3", o.appends, file_path)
          /\ group4_files' =
               Appended(group4_files, "group4", o.appends, file_path)
    /\ UNCHANGED << segVars, batVars, runVars, cpc, main_csv, annex_csv >>

\* Lines 310-326 at the end of a run: sort, concatenate, write
EndRun ==
    /\ cpc = "sweep"
    /\ Len(swept) = Len(all_csv_paths)
    /\ group1_main_dfs' = SortedByKey(group1_main_dfs, PREFIX_HYO)
    /\ group1_annex_dfs' = SortedByKey(group1_annex_dfs, PREFIX_BETSUHYO)
    /\ main_csv' = IF group1_main_dfs # << >>
                   THEN << Concat(Frames(group1_main_dfs')) >> ELSE main_csv
    /\ annex_csv' = IF group1_annex_dfs # << >>
                    THEN << Concat(Frames(group1_annex_dfs')) >> ELSE annex_csv
    /\ cpc' = IF run = 1 THEN "written" ELSE "done"
    /\ h_first_main' = IF run = 1 THEN main_csv' ELSE h_first_main
    /\ h_first_annex' = IF run = 1 THEN annex_csv' ELSE h_first_annex
    /\ UNCHANGED << segVars, batVars, run, all_csv_paths, swept, group2_files,
                    group3_files, group4_files, h_outcome >>

\* Lines 344-353 a second time, on the same input root
SecondRun ==
    /\ cpc = "written"
    /\ run = 1
    /\ run' = 2
    /\ all_csv_paths' \in WalkAgain(all_csv_paths)
    /\ cpc' = "sweep"
    /\ swept' = << >>
    /\ h_outcome' = << >>
    /\ group1_main_dfs' = << >>
    /\ group1_annex_dfs' = << >>
    /\ group2_files' = << >>
    /\ group3_files' = << >>
    /\ group4_files' = << >>
    /\ UNCHANGED << segVars, batVars, main_csv, annex_csv, h_first_main,
                    h_first_annex >>

RunNext ==
    \/ SweepFile
    \/ EndRun
    \/ SecondRun

RunSpecInit == SegIdle /\ RunInit /\ BatIdle

RunSpec == RunSpecInit /\ [][RunNext]_vars

\* C16 (as claimed): after the second of two runs on the same input root the
\* Main and Annex datasets are those the first run wrote.
C16_SecondRunSameDatasets ==
    (run = 2 /\ cpc = "done") =>
        /\ main_csv = h_first_main
        /\ annex_csv = h_first_annex

\* ============================================ claims: the two datasets
\* Every table value of the Grid starts with the token
AllRowsStartWith(df, token) ==
    \A value \in Range(Column(df, COL_HYO)) : StartsWith(AsStr(value), token)

\* The first table value of the file starts with neither token
NeitherToken(path) ==
    LET df == ReadCsv(FilePool[path])
    IN /\ COL_HYO \in Range(df.columns) /\ df.data # << >>
       /\ ~StartsWith(AsStr(Column(df, COL_HYO)[1]), PREFIX_HYO)
       /\ ~StartsWith(AsStr(Column(df, COL_HYO)[1]), PREFIX_BETSUHYO)

\* C17: every row of every Grid in Group1-Main, and of the Main dataset, has
\* a table value that starts with the table token; every row of every Grid
\* in Group1-Annex, and of the Annex dataset, one that starts with the annex
\* token; no file is in both lists; and no file whose first table value
\* starts with neither token is in Group1.
C17_MainAnnexPartition ==
    /\ \A item \in Range(group1_main_dfs) :
         AllRowsStartWith(item[1], PREFIX_HYO)
    /\ \A item \in Range(group1_annex_dfs) :
         AllRowsStartWith(item[1], PREFIX_BETSUHYO)
    /\ main_csv # << >> => AllRowsStartWith(main_csv[1], PREFIX_HYO)
    /\ annex_csv # << >> => AllRowsStartWith(annex_csv[1], PREFIX_BETSUHYO)
    /\ Range(PathsOf(group1_main_dfs)) \cap Range(PathsOf(group1_annex_dfs))
         = { }
    /\ \A path \in Range(swept) : NeitherToken(path) => path \notin Group1Paths

\* C17 witness: a file with a table value after an annex value in its rows
\* was swept and is not in Group1, a Grid of two rows is in Group1-Main, one
\* is in Group1-Annex, and both datasets are written.
C17_Witness ==
    /\ cpc = "done"
    /\ main_csv # << >> /\ annex_csv # << >>
    /\ \E item \in Range(group1_main_dfs) : Len(item[1].data) >= 2
    /\ \E path \in Range(swept) :
         LET df == ReadCsv(FilePool[path])
         IN /\ path \notin Group1Paths
            /\ Len(df.data) = 2
            /\ StartsWith(AsStr(Column(df, COL_HYO)[1]), PREFIX_HYO)
            /\ StartsWith(AsStr(Column(df, COL_HYO)[2]), PREFIX_BETSUHYO)

\* A file whose first table value starts with neither token was swept
C17_NeitherTokenReached ==
    \E path \in Range(swept) : NeitherToken(path) /\ path \in Range(group4_files)

\* ============================================= claims: the persistence
\* C18 (as claimed): when the batch has ended, the number of Grid files
\* written equals the number of sub-tables emitted: every sub-table has a
\* file name of its own.
C18_OneFilePerSubTable ==
    bpc = "finished" => Cardinality(saved) = total_extracted_tables

====
